---------------------------- MODULE Spec2Model ----------------------------
(***************************************************************************)
(* Model of the HLS manifest rewriting proxy of src/main.py.               *)
(*                                                                         *)
(* Text is modelled as a sequence of tokens.  A token is an indivisible    *)
(* piece of text ("https:", "/", ".js", "rr.buytommy.top", ...); every     *)
(* pattern the program searches for, splits on or replaces is a sequence   *)
(* of whole tokens, so the string operations of the program are computed   *)
(* on token sequences exactly as Python computes them on characters.       *)
(* The empty string is the empty sequence; Python's None is the value      *)
(* None below, which is not a token sequence of any text.                  *)
(***************************************************************************)
EXTENDS Naturals, Integers, Sequences, FiniteSets, TLC

None == <<"<None>">>

\* Python truthiness of an optional string: neither None nor "".
Truthy(x) == x # None /\ x # <<>>

-----------------------------------------------------------------------------
(* String operations of Python, on token sequences.                        *)

StartsWith(s, p) == Len(p) <= Len(s) /\ SubSeq(s, 1, Len(p)) = p

EndsWith(s, p) == Len(p) <= Len(s) /\ SubSeq(s, Len(s) - Len(p) + 1, Len(s)) = p

\* p in s
Contains(s, p) == \E j \in 1..(Len(s) - Len(p) + 1) : SubSeq(s, j, j + Len(p) - 1) = p

\* s.find(p), 1-based; 0 when p does not occur
Find(s, p) ==
    IF Contains(s, p)
    THEN CHOOSE j \in 1..(Len(s) - Len(p) + 1) :
            /\ SubSeq(s, j, j + Len(p) - 1) = p
            /\ \A k \in 1..(j - 1) : SubSeq(s, k, k + Len(p) - 1) # p
    ELSE 0

RECURSIVE Replace(_, _, _)
\* s.replace(old, new): every non-overlapping occurrence, left to right;
\* with old = "" the replacement is inserted before every unit and at the end
Replace(s, old, new) ==
    IF old = <<>>
    THEN IF s = <<>> THEN new
         ELSE new \o <<Head(s)>> \o Replace(Tail(s), old, new)
    ELSE IF s = <<>> THEN <<>>
    ELSE IF StartsWith(s, old)
    THEN new \o Replace(SubSeq(s, Len(old) + 1, Len(s)), old, new)
    ELSE <<Head(s)>> \o Replace(Tail(s), old, new)

RECURSIVE Split(_, _)
\* s.split(sep), sep non-empty: a sequence of strings, never empty
Split(s, sep) ==
    LET j == Find(s, sep)
    IN  IF j = 0 THEN <<s>>
        ELSE <<SubSeq(s, 1, j - 1)>> \o Split(SubSeq(s, j + Len(sep), Len(s)), sep)

RECURSIVE Join(_, _)
\* sep.join(parts)
Join(parts, sep) ==
    IF parts = <<>> THEN <<>>
    ELSE IF Len(parts) = 1 THEN parts[1]
    ELSE parts[1] \o sep \o Join(Tail(parts), sep)

RECURSIVE LStrip(_, _)
\* s.lstrip(c) for a one-character c
LStrip(s, c) == IF s # <<>> /\ Head(s) = c THEN LStrip(Tail(s), c) ELSE s

RECURSIVE RStrip(_, _)
RStrip(s, c) == IF s # <<>> /\ s[Len(s)] = c THEN RStrip(SubSeq(s, 1, Len(s) - 1), c) ELSE s

\* s.strip(): leading and trailing blanks removed
Strip(s) == RStrip(LStrip(s, " "), " ")

\* s.splitlines(): split at line ends, no empty last line after a final "\n"
SplitLines(s) ==
    IF s = <<>> THEN <<>>
    ELSE LET parts == Split(s, <<"\n">>)
         IN  IF parts[Len(parts)] = <<>> THEN SubSeq(parts, 1, Len(parts) - 1) ELSE parts

\* parts[-1]
Last(parts) == parts[Len(parts)]

\* dict assignment d[k] = v
Put(d, k, v) == [x \in DOMAIN d \cup {k} |-> IF x = k THEN v ELSE d[x]]

EmptyMap == [x \in {} |-> <<>>]

-----------------------------------------------------------------------------
(* Constants of the program.                                               *)

\* default of the parameter retries of fetch_resource
RETRIES == 3

HTTPS == <<"https:", "/", "/">>

RELAY_HOST == <<"rr.buytommy.top">>

PANEL_HOST == <<"p2-panel.streamed.su">>

FLU_HOST == <<"flu.streamed.su">>

CORS_PROXY_PREFIX == HTTPS \o <<"corsproxy.io", "/", "?url=">>

FLU_PREFIX == HTTPS \o FLU_HOST

BUCKET_PREFIX == HTTPS \o PANEL_HOST \o <<"/", "bucket-44677-gjnru5ktoa", "/">>

RELAY_PREFIX == HTTPS \o RELAY_HOST \o <<"/">>

REQUIRED_COOKIES == << <<"ddg8_">>, <<"ddg10_">>, <<"ddg9_">>, <<"ddg1_">> >>

MPEGURL == <<"application/vnd.apple.mpegurl">>

MP2T == <<"video/mp2t">>

OCTET_STREAM == <<"application/octet-stream">>

-----------------------------------------------------------------------------
(* Pure parts of the program.                                              *)

\* a candidate list with the two mirrors in the other order
Sources_fluFirst(url) ==
    << url, Replace(url, RELAY_HOST, FLU_HOST), Replace(url, RELAY_HOST, PANEL_HOST) >>

\* sources: the candidate URLs fetch_resource tries for url, in order
Sources(url) ==
    << url, Replace(url, RELAY_HOST, PANEL_HOST), Replace(url, RELAY_HOST, FLU_HOST) >>

\* the content type fetch_resource returns for a successful GET of source_url
\* whose response declares the content type declared (None: no such header)
ResolveContentType(source_url, declared) ==
    IF EndsWith(source_url, <<".ts">>) \/ EndsWith(source_url, <<".js">>) THEN MP2T
    ELSE IF declared = None THEN OCTET_STREAM
    ELSE declared

\* NextAttempt with the break taken after every failed attempt
NextAttempt_breakAlways(src, attempt, retries) == [src |-> src + 1, attempt |-> 1]

\* loops nested the other way round: one attempt on each candidate in turn
NextAttempt_roundRobin(src, attempt, retries) ==
    IF src < 3 THEN [src |-> src + 1, attempt |-> attempt]
    ELSE IF attempt < retries THEN [src |-> 1, attempt |-> attempt + 1]
    ELSE [src |-> 4, attempt |-> 1]

\* the loop position after a failed attempt: the next attempt on the same
\* candidate, or the first attempt on the next one once the attempts of this
\* candidate are used up; src = Len(sources) + 1 means the loops have ended
NextAttempt(src, attempt, retries) ==
    IF attempt >= retries THEN [src |-> src + 1, attempt |-> 1]
    ELSE [src |-> src, attempt |-> attempt + 1]

\* urllib.parse.unquote on one token
UnquoteToken(tok) ==
    CASE tok = "%3D"   -> "="
      [] tok = "%3B"   -> ";"
      [] tok = "%20"   -> " "
      [] tok = "%253D" -> "%3D"
      [] tok = "%253B" -> "%3B"
      [] OTHER         -> tok

Unquote(s) == [i \in 1..Len(s) |-> UnquoteToken(s[i])]

NonEmpty(s) == s # <<>>

\* The cookie normalisation of get_playlist.  raised: pair.split('=')[1]
\* fails with IndexError for a pair without "=".
NormalizeCookies(cookies) ==
    LET text  == Replace(Replace(Unquote(cookies), <<"%3B", "+">>, <<";", " ">>),
                         <<"%3D">>, <<"=">>)
        pairs == SelectSeq(Split(text, <<";", " ">>), NonEmpty)
        bad   == \E i \in 1..Len(pairs) : Len(Split(pairs[i], <<"=">>)) < 2
        fmt   == [i \in 1..Len(pairs) |->
                    LET kv == Split(pairs[i], <<"=">>)
                    IN  LStrip(kv[1], "_") \o <<"=">> \o kv[2]]
    IN  IF bad THEN [raised |-> TRUE, value |-> <<>>]
        ELSE [raised |-> FALSE, value |-> Join(fmt, <<";", " ">>)]

RECURSIVE CookieDict(_, _, _)
\* the loop of fetch_cookies that fills cookie_dict from the split header
CookieDict(cookies, i, dict) ==
    IF i > Len(cookies) THEN dict
    ELSE LET parts == Split(Strip(Split(cookies[i], <<";">>)[1]), <<"=">>)
         IN  IF Len(parts) = 2
             THEN CookieDict(cookies, i + 1,
                             Put(dict, LStrip(Strip(parts[1]), "_"), Strip(parts[2])))
             ELSE CookieDict(cookies, i + 1, dict)

\* What fetch_cookies makes of the Set-Cookie header of the handshake
\* response (None: no header): the formatted cookie string, or None.
FormatCookies(set_cookie) ==
    IF ~Truthy(set_cookie) THEN None
    ELSE LET dict  == CookieDict(Split(set_cookie, <<",">>), 1, EmptyMap)
             InDict(key) == key \in DOMAIN dict
             found == SelectSeq(REQUIRED_COOKIES, InDict)
             formatted == Join([i \in 1..Len(found) |-> found[i] \o <<"=">> \o dict[found[i]]],
                               <<";", " ">>)
         IN  IF formatted = <<>> THEN None ELSE formatted

\* urllib.parse.urljoin(base, ref) for a base that is empty or an absolute
\* https URL without query, and a reference without dot segments
UrlJoin(base, ref) ==
    IF base = <<>> THEN ref
    ELSE IF ref = <<>> THEN base
    ELSE IF Head(ref) = "https:" THEN ref
    ELSE LET rest    == SubSeq(base, 4, Len(base))
             slash   == Find(rest, <<"/">>)
             netloc  == IF slash = 0 THEN rest ELSE SubSeq(rest, 1, slash - 1)
             path    == IF slash = 0 THEN <<>> ELSE SubSeq(rest, slash, Len(rest))
             parts   == Split(path, <<"/">>)
             dir     == IF path = <<>> THEN <<"/">>
                        ELSE Join(SubSeq(parts, 1, Len(parts) - 1), <<"/">>) \o <<"/">>
         IN  IF StartsWith(ref, <<"/", "/">>) THEN <<"https:">> \o ref
             ELSE IF Head(ref) = "/" THEN HTTPS \o netloc \o ref
             ELSE HTTPS \o netloc \o dir \o ref

\* line.startswith("#EXT-X-KEY") and "URI=" in line
IsKeyLine(line) == StartsWith(line, <<"#EXT-X-KEY">>) /\ Contains(line, <<"URI=">>)

\* line.startswith("https://")
IsUrlLine(line) == StartsWith(line, HTTPS)

\* line.split('URI="')[1].split('"')[0], where the first split has two pieces
KeyUri(line) == Split(Split(line, <<"URI=", "\"">>)[2], <<"\"">>)[1]

\* original_url.split("/")[-1].replace(".js", ".ts")
SegmentName(original_url) == Replace(Last(Split(original_url, <<"/">>)), <<".js">>, <<".ts">>)

\* the upstream URL the rewrite pass maps a segment line to
SegmentTarget(original_url) ==
    LET direct_url == Replace(original_url, CORS_PROXY_PREFIX, <<>>)
    IN  IF StartsWith(direct_url, FLU_PREFIX) THEN direct_url
        ELSE BUCKET_PREFIX \o Replace(SegmentName(original_url), <<".ts">>, <<".js">>)

RECURSIVE RewriteFrom(_, _, _, _)
\* The loop of get_playlist over m3u8_lines from line i on, with the Segment
\* Map as filled so far.  raised: line.split('URI="')[1] fails with
\* IndexError; the map then keeps what the lines before line i put in it.
RewriteFrom(lines, i, map, url) ==
    IF i > Len(lines) THEN [lines |-> lines, map |-> map, raised |-> FALSE]
    ELSE LET line == lines[i]
         IN  IF IsKeyLine(line)
             THEN IF Len(Split(line, <<"URI=", "\"">>)) < 2
                  THEN [lines |-> lines, map |-> map, raised |-> TRUE]
                  ELSE LET original_uri == KeyUri(line)
                           key_path     == LStrip(original_uri, "/")
                           new_uri      == <<"/">> \o key_path
                       IN  RewriteFrom([lines EXCEPT ![i] = Replace(line, original_uri, new_uri)],
                                       i + 1,
                                       Put(map, key_path, UrlJoin(url, original_uri)),
                                       url)
             ELSE IF IsUrlLine(line)
             THEN LET original_url == Strip(line)
                      segment_name == SegmentName(original_url)
                  IN  RewriteFrom([lines EXCEPT ![i] = <<"/">> \o segment_name],
                                  i + 1,
                                  Put(map, segment_name, SegmentTarget(original_url)),
                                  url)
             ELSE RewriteFrom(lines, i + 1, map, url)

\* The rewrite pass on decoded manifest text, from the cleared Segment Map:
\* the loop, and the join of the lines.
Rewrite(text, url) ==
    LET r == RewriteFrom(SplitLines(text), 1, EmptyMap, url)
    IN  [text |-> Join(r.lines, <<"\n">>), map |-> r.map, raised |-> r.raised]

\* a pass that keeps what the map held
Clear_keep(map) == map

\* SEGMENT_MAP.clear()
Clear(map) == EmptyMap

\* The rewrite pass as get_playlist runs it on the global Segment Map map:
\* the clear, the loop, and the join of the lines.
RewritePass(map, text, url) ==
    LET r == RewriteFrom(SplitLines(text), 1, Clear(map), url)
    IN  [text |-> Join(r.lines, <<"\n">>), map |-> r.map, raised |-> r.raised]

\* "#EXTM3U" in m3u8_content
HasMarker(text) == Contains(text, <<"#EXTM3U">>)

\* content.decode("utf-8") raises UnicodeDecodeError on bytes that are not
\* UTF-8; "<ff>" stands for such a byte
Decodable(content) == \A i \in 1..Len(content) : content[i] # "<ff>"

-----------------------------------------------------------------------------
(* Inputs and the environment.                                             *)

\* longest upstream payload of a resource request
MaxPayloadLen == 2

\* the request tasks; Spec runs the requests one after the other in "t1"
Tasks == {"t1", "t2"}

SeqTasks == {"t1"}

U_RELAY == HTTPS \o RELAY_HOST \o <<"/", "live", "/", "index.m3u8">>

U_EMPTY == <<>>

\* the query parameter url of a manifest request
Urls == {U_RELAY, U_EMPTY}

\* the query parameter cookies of a manifest request
CookieParams ==
    { <<>>,
      <<"a", "=", "1">>,
      <<"_", "a", "%3D", "1", ";", " ", "_", "b", "=", "2">>,
      <<"a">> }

\* the path of a resource request
Paths == { <<"seg1", ".ts">>, <<"key.bin">>, <<"x", ".ts">>, <<>> }

\* the query parameter cookies of a resource request ("" when absent)
ResourceCookies == { <<>>, <<"a", "=", "1">> }

\* the Range header of a resource request (None when absent)
Ranges == { None, <<>>, <<"bytes=0-99">> }

B_SEG == <<"#EXTM3U", "\n">> \o HTTPS \o <<"x", "/", "seg1", ".js", "\n">>

B_KEY ==
    <<"#EXTM3U", "\n", "#EXT-X-KEY", ":METHOD=AES-128,", "URI=", "\"", "key.bin", "\"", "\n">>
        \o HTTPS \o FLU_HOST \o <<"/", "seg1", ".js">>

B_ABSKEY ==
    <<"#EXTM3U", "\n", "#EXT-X-KEY", ":METHOD=AES-128,", "URI=", "\"", "/", "a", "/", "key.bin", "\"">>

B_UNQUOTED ==
    <<"#EXTM3U", "\n">> \o HTTPS \o <<"x", "/", "seg1", ".js", "\n">>
        \o <<"#EXT-X-KEY", ":METHOD=AES-128,", "URI=", "key.bin">>

B_EMPTYKEY == <<"#EXTM3U", "\n", "#EXT-X-KEY", ":METHOD=NONE,", "URI=", "\"", "\"">>

B_QUERY == <<"#EXTM3U", "\n">> \o HTTPS \o <<"x", "/", "seg1", ".js", "?t=1">>

B_CORS ==
    <<"#EXTM3U", "\n">> \o CORS_PROXY_PREFIX \o HTTPS \o FLU_HOST \o <<"/", "b", "/", "seg2", ".js">>

B_HTML == <<"<html>", "\n">>

B_BINARY == <<"<ff>">>

\* the bodies upstream answers a manifest GET with
ManifestBodies ==
    { B_SEG, B_KEY, B_ABSKEY, B_UNQUOTED, B_EMPTYKEY, B_QUERY, B_CORS, B_HTML, B_BINARY, <<>> }

\* the bodies upstream answers a resource GET with
Payloads == UNION { [1..n -> {"G"}] : n \in 0..MaxPayloadLen }

\* the content-type header of an upstream response (None: absent)
DeclaredTypes == { None, <<"text/plain">> }

\* the ways an attempt of the Fetcher fails: raise_for_status, or the GET itself
GetErrors == { "status", "transport" }

D_FLU == HTTPS \o FLU_HOST \o <<"/", "d", "/", "live.m3u8">>

\* the landing page: a transport error, no manifest URL in it, or the first match
LandingPages ==
    { [error |-> TRUE, match |-> None],
      [error |-> FALSE, match |-> None],
      [error |-> FALSE, match |-> D_FLU] }

H_TWO ==
    <<"_", "_", "ddg1_", "=", "v1", ";", " ", "Path", "=", "/", ",", " ",
      "_", "_", "ddg8_", "=", "v8">>

H_ONE == <<"_", "_", "ddg1_", "=", "w1">>

H_OTHER == <<"other", "=", "1">>

\* the handshake: a transport error, or a response with this Set-Cookie header
Handshakes ==
    { [error |-> TRUE, set_cookie |-> None] }
        \cup { [error |-> FALSE, set_cookie |-> h] : h \in {None, H_TWO, H_ONE, H_OTHER} }

-----------------------------------------------------------------------------
(* State.                                                                  *)

VARIABLES
    SEGMENT_MAP,     \* the global dict: proxy-local path -> upstream URL
    CACHED_COOKIES,  \* the global cookie cache: None or the cookie string
    task,            \* per request task: its position and its local variables
    net,             \* per request task: the outbound calls it has made
    resp,            \* per request task: the response of its request
    served           \* history: the last rewrite pass that was answered 200

vars == <<SEGMENT_MAP, CACHED_COOKIES, task, net, resp, served>>

NoResult == [ok |-> FALSE, content |-> <<>>, content_type |-> None]

NoExc == [type |-> "none", status |-> 0, detail |-> <<>>]

IndexError == [type |-> "IndexError", status |-> 0, detail |-> <<"list index out of range">>]

UnicodeDecodeError ==
    [type |-> "UnicodeDecodeError", status |-> 0, detail |-> <<"'utf-8' codec can't decode">>]

HTTPException(status_code, detail) ==
    [type |-> "HTTPException", status |-> status_code, detail |-> detail]

\* str(e)
ExcStr(e) == IF e.type = "HTTPException" THEN <<ToString(e.status), ": ">> \o e.detail ELSE e.detail

NoHeaders == [acao |-> None, accept_ranges |-> None, content_range |-> None]

NoResp == [status |-> 0, body |-> <<>>, media_type |-> None, headers |-> NoHeaders, detail |-> <<>>]

NoGet == [url |-> None, cookie |-> None, range |-> None, outcome |-> "none"]

\* gets: GETs of the current (or last) fetch_resource call; last: how that
\* call ended; first: how the first call of the request ended; fetches,
\* locates, auths, posts: calls of fetch_resource, fetch_m3u8_url and
\* fetch_cookies and handshake POSTs of the request
NoNet ==
    [gets |-> 0, last |-> "none", first |-> "none", fetches |-> 0, locates |-> 0,
     auths |-> 0, posts |-> 0, lastGet |-> NoGet]

\* text, url: the manifest text and the url parameter of the pass; out, map:
\* the text it returned and the Segment Map it left; again: its response is
\* still to be delivered and the served pass before it had the same text and url
NoPass == [text |-> None, url |-> None, out |-> None, map |-> EmptyMap, again |-> FALSE]

IdleTask ==
    [pc |-> "idle", kind |-> "none", url |-> None, cookies |-> None, path |-> None,
     range_header |-> None, resource_url |-> None, m3u8_url |-> None,
     result |-> NoResult, tier |-> 0, furl |-> None, fcookies |-> None,
     src |-> 0, attempt |-> 0, headers |-> [cookie |-> None, range |-> None],
     exc |-> NoExc]

Init ==
    /\ SEGMENT_MAP = EmptyMap
    /\ CACHED_COOKIES = None
    /\ task = [t \in Tasks |-> IdleTask]
    /\ net = [t \in Tasks |-> NoNet]
    /\ resp = [t \in Tasks |-> NoResp]
    /\ served = NoPass

-----------------------------------------------------------------------------
(* The route handlers, cut at the outbound calls where a task suspends.    *)

\* ErrorResponse of a handler that catches HTTPException only: any other
\* exception leaves the handler and the server answers without a message
ErrorResponse_uncaught(prefix, e) ==
    IF e.type = "HTTPException"
    THEN [NoResp EXCEPT !.status = 500, !.detail = prefix \o ExcStr(e)]
    ELSE [NoResp EXCEPT !.status = 500]

\* the except clause of a route handler: HTTPException(500, prefix + str(e))
ErrorResponse(prefix, e) ==
    [NoResp EXCEPT !.status = 500, !.detail = prefix \o ExcStr(e)]

\* task t ends its request in the except clause, having raised e
Raise(t, tk, nt, prefix, e) ==
    /\ task' = [task EXCEPT ![t] = [tk EXCEPT !.pc = "done", !.exc = e]]
    /\ net' = [net EXCEPT ![t] = nt]
    /\ resp' = [resp EXCEPT ![t] = ErrorResponse(prefix, e)]
    /\ UNCHANGED served

\* task t calls fetch_resource(url, cookies) and suspends at its first GET
CallFetch(t, tk, nt, url, cookies) ==
    /\ task' = [task EXCEPT ![t] =
                  [tk EXCEPT !.pc = "fetch", !.furl = url, !.fcookies = cookies,
                             !.src = 1, !.attempt = 1]]
    /\ net' = [net EXCEPT ![t] = [nt EXCEPT !.fetches = @ + 1, !.gets = 0, !.last = "none"]]
    /\ resp' = [resp EXCEPT ![t] = NoResp]
    /\ UNCHANGED served

\* get_playlist up to its first outbound call
StartPlaylist(t, url, cookies) ==
    LET tk == [IdleTask EXCEPT !.kind = "playlist", !.url = url, !.cookies = cookies]
        n  == NormalizeCookies(cookies)
    IN  /\ task[t].pc = "idle"
        /\ IF n.raised
           THEN Raise(t, tk, NoNet, <<"Error fetching M3U8: ">>, IndexError)
           ELSE CallFetch(t, [tk EXCEPT !.cookies = n.value, !.tier = 1], NoNet, url, n.value)
        /\ UNCHANGED <<SEGMENT_MAP, CACHED_COOKIES>>

\* Dispatch without the .ts -> .js swap in the guessed URL
Dispatch_noSwap(map, path) ==
    LET resource_url == IF path \in DOMAIN map THEN map[path] ELSE None
    IN  IF ~Truthy(resource_url) THEN RELAY_PREFIX \o path ELSE resource_url

\* resource_url of get_resource: the mapped URL, or the guess on the relay host
Dispatch(map, path) ==
    LET resource_url == IF path \in DOMAIN map THEN map[path] ELSE None
    IN  IF ~Truthy(resource_url)
        THEN RELAY_PREFIX \o Replace(path, <<".ts">>, <<".js">>)
        ELSE resource_url

\* the local headers of get_resource: HEADERS plus the Cookie and Range
\* headers of the request; fetch_resource is not given them
ResourceHeaders(cookies, range_header) ==
    [cookie |-> IF Truthy(cookies) THEN Unquote(cookies) ELSE None,
     range  |-> IF Truthy(range_header) THEN range_header ELSE None]

\* a lookup that stores the URL it resolves to, as SEGMENT_MAP.setdefault does
MapAfterLookup_setdefault(map, path) == Put(map, path, Dispatch(map, path))

\* SEGMENT_MAP.get(path): the lookup leaves the dict as it is
MapAfterLookup(map, path) == map

\* get_resource up to its first outbound call
StartResource(t, path, cookies, range_header) ==
    LET resource_url == Dispatch(SEGMENT_MAP, path)
        tk == [IdleTask EXCEPT !.kind = "resource", !.path = path, !.cookies = cookies,
                               !.range_header = range_header,
                               !.resource_url = resource_url,
                               !.headers = ResourceHeaders(cookies, range_header)]
    IN  /\ task[t].pc = "idle"
        /\ CallFetch(t, tk, NoNet, resource_url, cookies)
        /\ SEGMENT_MAP' = MapAfterLookup(SEGMENT_MAP, path)
        /\ UNCHANGED CACHED_COOKIES

\* the URL of the GET task t is suspended at
SourceUrl(tk) == Sources(tk.furl)[tk.src]

\* the request headers fetch_resource sends: HEADERS plus the Cookie header
FetchHeaders(tk) == [cookie |-> tk.fcookies, range |-> None]

\* the bookkeeping of one GET of task t with the given outcome
Sent(t, outcome) ==
    [net[t] EXCEPT !.gets = @ + 1,
                   !.lastGet = [url |-> SourceUrl(task[t]),
                                cookie |-> FetchHeaders(task[t]).cookie,
                                range |-> FetchHeaders(task[t]).range,
                                outcome |-> outcome]]

\* how a fetch_resource call ended, kept for the first call of the request too
Ended(nt, how) == [nt EXCEPT !.last = how, !.first = IF @ = "none" THEN how ELSE @]

\* a GET of fetch_resource fails and the loops go on to the next attempt
GetRetry(t, err) ==
    LET tk == task[t]
        nx == NextAttempt(tk.src, tk.attempt, RETRIES)
    IN  /\ tk.pc = "fetch"
        /\ nx.src <= Len(Sources(tk.furl))
        /\ task' = [task EXCEPT ![t] = [tk EXCEPT !.src = nx.src, !.attempt = nx.attempt]]
        /\ net' = [net EXCEPT ![t] = Sent(t, err)]
        /\ UNCHANGED <<SEGMENT_MAP, CACHED_COOKIES, resp, served>>

\* the last GET of fetch_resource has failed: the call returns None
Exhausted(tk) ==
    /\ tk.pc = "fetch"
    /\ NextAttempt(tk.src, tk.attempt, RETRIES).src > Len(Sources(tk.furl))

\* a GET can only succeed on an absolute URL: httpx fails any other one with
\* UnsupportedProtocol, a transport error
Routable(url) == StartsWith(url, HTTPS)

\* what fetch_resource returns for a successful GET
Fetched(tk, body, declared) ==
    [ok |-> TRUE, content |-> body, content_type |-> ResolveContentType(SourceUrl(tk), declared)]

\* ResourceResponse with the last byte position off by one
ResourceResponse_offByOne(result, range_header) ==
    LET n == Len(result.content)
        response_headers == [NoHeaders EXCEPT !.acao = <<"*">>, !.accept_ranges = <<"bytes">>]
    IN  IF Truthy(range_header)
        THEN [NoResp EXCEPT !.status = 206, !.body = result.content,
                            !.media_type = result.content_type,
                            !.headers = [response_headers EXCEPT !.content_range =
                                <<"bytes ", ToString(0), "-", ToString(n), "/", ToString(n)>>]]
        ELSE [NoResp EXCEPT !.status = 200, !.body = result.content,
                            !.media_type = result.content_type,
                            !.headers = response_headers]

\* the response of get_resource to a fetched payload
ResourceResponse(result, range_header) ==
    LET n == Len(result.content)
        response_headers == [NoHeaders EXCEPT !.acao = <<"*">>, !.accept_ranges = <<"bytes">>]
    IN  IF Truthy(range_header)
        THEN [NoResp EXCEPT !.status = 206, !.body = result.content,
                            !.media_type = result.content_type,
                            !.headers = [response_headers EXCEPT !.content_range =
                                <<"bytes ", ToString(0), "-", ToString(n - 1), "/", ToString(n)>>]]
        ELSE [NoResp EXCEPT !.status = 200, !.body = result.content,
                            !.media_type = result.content_type,
                            !.headers = response_headers]

\* get_resource after a GET of its fetch_resource call has succeeded
ResourceFetched(t, body, declared) ==
    LET tk == task[t]
        result == Fetched(tk, body, declared)
    IN  /\ tk.pc = "fetch"
        /\ tk.kind = "resource"
        /\ Routable(SourceUrl(tk))
        /\ task' = [task EXCEPT ![t] = [tk EXCEPT !.pc = "done", !.result = result]]
        /\ net' = [net EXCEPT ![t] = Ended(Sent(t, "ok"), "ok")]
        /\ resp' = [resp EXCEPT ![t] = ResourceResponse(result, tk.range_header)]
        /\ UNCHANGED <<SEGMENT_MAP, CACHED_COOKIES, served>>

\* get_resource after the last GET of its fetch_resource call has failed
ResourceFailed(t, err) ==
    LET tk == task[t]
    IN  /\ Exhausted(tk)
        /\ tk.kind = "resource"
        /\ Raise(t, [tk EXCEPT !.result = NoResult], Ended(Sent(t, err), "fail"),
                 <<"Error fetching resource: ">>,
                 HTTPException(500, <<"Error fetching resource">>))
        /\ UNCHANGED <<SEGMENT_MAP, CACHED_COOKIES>>

\* the URL get_playlist resolves the key URIs of the manifest against
RewriteBase(tk) == tk.url

\* get_playlist after a GET of fetch_resource has succeeded, on either tier:
\* decode, check the marker, clear and refill the Segment Map, respond
PlaylistFetched(t, body, declared) ==
    LET tk == [task[t] EXCEPT !.result = Fetched(task[t], body, declared)]
        nt == Ended(Sent(t, "ok"), "ok")
        r  == RewritePass(SEGMENT_MAP, body, RewriteBase(tk))
    IN  /\ task[t].pc = "fetch"
        /\ task[t].kind = "playlist"
        /\ Routable(SourceUrl(task[t]))
        /\ IF ~Decodable(body)
           THEN /\ Raise(t, tk, nt, <<"Error fetching M3U8: ">>, UnicodeDecodeError)
                /\ UNCHANGED SEGMENT_MAP
           ELSE IF ~HasMarker(body)
           THEN /\ Raise(t, tk, nt, <<"Error fetching M3U8: ">>,
                         HTTPException(500, <<"Invalid M3U8 content">>))
                /\ UNCHANGED SEGMENT_MAP
           ELSE IF r.raised
           THEN /\ Raise(t, tk, nt, <<"Error fetching M3U8: ">>, IndexError)
                /\ SEGMENT_MAP' = r.map
           ELSE /\ task' = [task EXCEPT ![t] = [tk EXCEPT !.pc = "done"]]
                /\ net' = [net EXCEPT ![t] = nt]
                /\ resp' = [resp EXCEPT ![t] =
                              [NoResp EXCEPT !.status = 200, !.body = r.text,
                                             !.media_type = MPEGURL,
                                             !.headers = [NoHeaders EXCEPT !.acao = <<"*">>]]]
                /\ SEGMENT_MAP' = r.map
                /\ served' = [text |-> body, url |-> tk.url, out |-> r.text, map |-> r.map,
                              again |-> served.text = body /\ served.url = tk.url]
        /\ UNCHANGED CACHED_COOKIES

\* get_playlist after the provided URL has failed on every candidate: it
\* calls fetch_m3u8_url and suspends at the GET of the landing page
PlaylistTier1Failed(t, err) ==
    LET tk == task[t]
    IN  /\ Exhausted(tk)
        /\ tk.kind = "playlist"
        /\ tk.tier = 1
        /\ task' = [task EXCEPT ![t] = [tk EXCEPT !.pc = "locate", !.result = NoResult]]
        /\ net' = [net EXCEPT ![t] = [Ended(Sent(t, err), "fail") EXCEPT !.locates = @ + 1]]
        /\ UNCHANGED <<SEGMENT_MAP, CACHED_COOKIES, resp, served>>

\* get_playlist after the discovered URL has failed on every candidate
PlaylistTier2Failed(t, err) ==
    LET tk == task[t]
    IN  /\ Exhausted(tk)
        /\ tk.kind = "playlist"
        /\ tk.tier = 2
        /\ Raise(t, [tk EXCEPT !.result = NoResult], Ended(Sent(t, err), "fail"),
                 <<"Error fetching M3U8: ">>,
                 HTTPException(500, <<"Error fetching M3U8">>))
        /\ UNCHANGED <<SEGMENT_MAP, CACHED_COOKIES>>

\* FallbackMissing with "and" for "or"
FallbackMissing_and(m3u8_url, cookies) == ~Truthy(m3u8_url) /\ ~Truthy(cookies)

\* not m3u8_url or not cookies
FallbackMissing(m3u8_url, cookies) == ~Truthy(m3u8_url) \/ ~Truthy(cookies)

\* get_playlist once fetch_cookies has returned cookies: it gives up, or
\* calls fetch_resource with the fresh values
WithSession(t, tk, nt, cookies) ==
    IF FallbackMissing(tk.m3u8_url, cookies)
    THEN Raise(t, [tk EXCEPT !.cookies = cookies], nt, <<"Error fetching M3U8: ">>,
               HTTPException(500, <<"Could not fetch M3U8 URL or cookies">>))
    ELSE CallFetch(t, [tk EXCEPT !.cookies = cookies, !.tier = 2], nt, tk.m3u8_url, cookies)

\* CacheHit of a fetch_cookies that never looks at the cache
CacheHit_never(cache) == FALSE

\* if CACHED_COOKIES: return CACHED_COOKIES
CacheHit(cache) == Truthy(cache)

\* The landing page has answered: fetch_m3u8_url returns, and fetch_cookies
\* is called; it returns the cached cookies at once, or suspends at its POST.
Located(t, page) ==
    LET tk == [task[t] EXCEPT !.m3u8_url = IF page.error THEN None ELSE page.match]
        nt == [net[t] EXCEPT !.auths = @ + 1]
    IN  /\ task[t].pc = "locate"
        /\ IF CacheHit(CACHED_COOKIES)
           THEN WithSession(t, tk, nt, CACHED_COOKIES)
           ELSE /\ task' = [task EXCEPT ![t] = [tk EXCEPT !.pc = "auth"]]
                /\ net' = [net EXCEPT ![t] = [nt EXCEPT !.posts = @ + 1]]
                /\ UNCHANGED <<resp, served>>
        /\ UNCHANGED <<SEGMENT_MAP, CACHED_COOKIES>>

\* a fetch_cookies that stores what it returns, None too
Cache_lastResult(cache, formatted) == formatted

\* the cache after a handshake that gave formatted (None: it failed)
Cache(cache, formatted) == IF formatted = None THEN cache ELSE formatted

\* The handshake has answered: fetch_cookies caches and returns the
\* formatted cookies, or returns None.
Handshake(t, hs) ==
    LET tk == task[t]
        formatted == IF hs.error THEN None ELSE FormatCookies(hs.set_cookie)
    IN  /\ tk.pc = "auth"
        /\ CACHED_COOKIES' = Cache(CACHED_COOKIES, formatted)
        /\ WithSession(t, tk, net[t], formatted)
        /\ UNCHANGED SEGMENT_MAP

\* the response of task t has been sent: the task ends, and its slot is free
\* for the next request
Deliver(t) ==
    /\ task[t].pc = "done"
    /\ task' = [task EXCEPT ![t] = IdleTask]
    /\ net' = [net EXCEPT ![t] = NoNet]
    /\ resp' = [resp EXCEPT ![t] = NoResp]
    /\ served' = [served EXCEPT !.again = FALSE]
    /\ UNCHANGED <<SEGMENT_MAP, CACHED_COOKIES>>

Next ==
    \/ \E t \in SeqTasks, url \in Urls, cookies \in CookieParams : StartPlaylist(t, url, cookies)
    \/ \E t \in SeqTasks, path \in Paths, cookies \in ResourceCookies, range_header \in Ranges :
          StartResource(t, path, cookies, range_header)
    \/ \E t \in SeqTasks, err \in GetErrors : GetRetry(t, err)
    \/ \E t \in SeqTasks, body \in Payloads, declared \in DeclaredTypes :
          ResourceFetched(t, body, declared)
    \/ \E t \in SeqTasks, err \in GetErrors : ResourceFailed(t, err)
    \/ \E t \in SeqTasks, body \in ManifestBodies, declared \in DeclaredTypes :
          PlaylistFetched(t, body, declared)
    \/ \E t \in SeqTasks, err \in GetErrors : PlaylistTier1Failed(t, err)
    \/ \E t \in SeqTasks, err \in GetErrors : PlaylistTier2Failed(t, err)
    \/ \E t \in SeqTasks, page \in LandingPages : Located(t, page)
    \/ \E t \in SeqTasks, hs \in Handshakes : Handshake(t, hs)
    \/ \E t \in SeqTasks : Deliver(t)

Spec == Init /\ [][Next]_vars

\* The inputs of the manifest requests that run concurrently: manifests with
\* different entries or failing in the pass, a landing page without a manifest
\* URL, handshakes that fail or give different cookies. (Resource requests,
\* which read the two globals only, and the second fetch_resource call of a
\* manifest request run in Spec.)
ConcBodies == { B_SEG, B_ABSKEY, B_UNQUOTED }

ConcHandshakes ==
    { [error |-> TRUE, set_cookie |-> None],
      [error |-> FALSE, set_cookie |-> H_TWO],
      [error |-> FALSE, set_cookie |-> H_ONE] }

\* Two requests at a time, each handled as a task of the event loop: a step
\* of either task is the code of its handler between two outbound calls.
NextConc ==
    \/ \E t \in Tasks : StartPlaylist(t, U_RELAY, <<>>)
    \/ \E t \in Tasks : GetRetry(t, "transport")
    \/ \E t \in Tasks, body \in ConcBodies : PlaylistFetched(t, body, None)
    \/ \E t \in Tasks : PlaylistTier1Failed(t, "transport")
    \/ \E t \in Tasks : Located(t, [error |-> FALSE, match |-> None])
    \/ \E t \in Tasks, hs \in ConcHandshakes : Handshake(t, hs)
    \/ \E t \in Tasks : Deliver(t)

SpecConc == Init /\ [][NextConc]_vars

-----------------------------------------------------------------------------
(* Properties.                                                             *)

\* C1: a fetch_resource call in which every GET fails issues exactly 9 GETs
\* (3 candidates, 3 attempts each) and then returns None to its caller; while
\* the call runs, the GETs issued so far are those of the loop positions passed.
C1_RetryBound ==
    \A t \in Tasks :
        /\ net[t].last = "fail" => net[t].gets = 9 /\ task[t].result = NoResult
        /\ task[t].pc = "fetch" =>
              net[t].gets = RETRIES * (task[t].src - 1) + (task[t].attempt - 1)
        /\ net[t].gets <= 9

\* a manifest request whose first fetch_resource call has failed on all 9 GETs
\* and returned, so that the handler went on to the landing page
C1_Witness ==
    \E t \in Tasks : net[t].last = "fail" /\ net[t].gets = 9 /\ task[t].pc = "locate"

\* C2: in a manifest request fetch_m3u8_url and fetch_cookies are called only
\* after the first fetch_resource call has failed; fetch_resource is called a
\* second time only with a discovered URL and a session cookie, and with these
\* values; a failure of discovery, authentication or the second call ends the
\* request with 500; fetch_resource is never called more than twice, and after
\* a successful first call neither fetch_m3u8_url nor fetch_cookies is called.
C2_TwoTier ==
    \A t \in Tasks :
        task[t].kind = "playlist" =>
            /\ net[t].fetches <= 2
            /\ net[t].locates <= 1 /\ net[t].auths <= 1
            /\ (net[t].locates > 0 \/ net[t].auths > 0) => net[t].first = "fail"
            /\ net[t].first = "ok" =>
                  net[t].fetches = 1 /\ net[t].locates = 0 /\ net[t].auths = 0
            /\ net[t].fetches = 2 =>
                  /\ net[t].first = "fail" /\ net[t].locates = 1 /\ net[t].auths = 1
                  /\ Truthy(task[t].m3u8_url) /\ Truthy(task[t].cookies)
                  /\ task[t].furl = task[t].m3u8_url
                  /\ task[t].fcookies = task[t].cookies
                  /\ net[t].gets > 0 => net[t].lastGet.cookie = task[t].cookies
            /\ ( /\ task[t].pc = "done"
                 /\ net[t].first = "fail"
                 /\ \/ ~Truthy(task[t].m3u8_url)
                    \/ ~Truthy(task[t].cookies)
                    \/ net[t].last = "fail" )
               => resp[t].status = 500

\* a manifest request served from the discovered URL after the provided one failed
C2_Witness ==
    \E t \in Tasks :
        /\ task[t].kind = "playlist" /\ task[t].pc = "done"
        /\ net[t].first = "fail" /\ net[t].fetches = 2 /\ resp[t].status = 200

\* the request of task t has failed inside its handler
Failure(t) ==
    \/ task[t].kind = "playlist" /\ net[t].fetches = 0
          /\ NormalizeCookies(task[t].cookies).raised
    \/ net[t].last = "fail"
    \/ task[t].kind = "playlist" /\ net[t].first = "fail"
          /\ (~Truthy(task[t].m3u8_url) \/ ~Truthy(task[t].cookies))
    \/ task[t].kind = "playlist" /\ task[t].result.ok
          /\ \/ ~Decodable(task[t].result.content)
             \/ ~HasMarker(task[t].result.content)
             \/ Rewrite(task[t].result.content, task[t].url).raised

\* C3: a request has a response exactly when its handler has ended; the
\* response is 200, 206 or 500; it is 500 and carries a message whenever the
\* request failed inside the handler (Fetcher failure, failed discovery or
\* authentication, invalid manifest, an exception while normalising cookies,
\* decoding or rewriting), and a success otherwise.
C3_Uniform500 ==
    \A t \in Tasks :
        /\ task[t].pc = "done" <=> resp[t].status # 0
        /\ resp[t].status \in {0, 200, 206, 500}
        /\ task[t].pc = "done" =>
              IF Failure(t)
              THEN resp[t].status = 500 /\ resp[t].detail # <<>>
                   /\ Len(resp[t].detail) > 1
              ELSE resp[t].status \in {200, 206}

\* a manifest request answered 500 because the rewrite pass raised IndexError
C3_Witness ==
    \E t \in Tasks :
        /\ task[t].kind = "playlist" /\ task[t].pc = "done"
        /\ task[t].result.ok /\ task[t].exc.type = "IndexError"
        /\ resp[t].status = 500

\* the guess for an unmapped path: the relay host with .ts swapped to .js
FallbackUrl(path) == RELAY_PREFIX \o Replace(path, <<".ts">>, <<".js">>)

C5_RangePassthrough ==
    \A t \in Tasks :
        task[t].kind = "resource" /\ net[t].gets > 0 =>
            /\ Truthy(task[t].range_header) => net[t].lastGet.range = task[t].range_header
            /\ task[t].range_header = None => net[t].lastGet.range = None

\* C6: a fetched manifest with the marker #EXTM3U is answered with its
\* rewritten text, whatever its other lines are, and the rewrite pass does not
\* raise; a fetched manifest without the marker is answered 500 with the
\* invalid-content message.
C6_MarkerDecides ==
    \A t \in Tasks :
        ( /\ task[t].kind = "playlist" /\ task[t].pc = "done"
          /\ task[t].result.ok /\ Decodable(task[t].result.content) )
        => IF HasMarker(task[t].result.content)
           THEN /\ task[t].exc = NoExc
                /\ resp[t].status = 200
           ELSE /\ resp[t].status = 500
                /\ Contains(resp[t].detail, <<"Invalid M3U8 content">>)

\* the manifest request of task t has been answered with a rewritten manifest
Served(t) == task[t].kind = "playlist" /\ task[t].pc = "done" /\ resp[t].status = 200

\* the quoted URI attribute of a line, None if it has none
UriAttribute(line) ==
    IF Len(Split(line, <<"URI=", "\"">>)) < 2 THEN None ELSE KeyUri(line)

\* C7 (for key lines with a non-empty URI): in every served manifest, from the
\* provided URL or from the discovered one, a key line with URI u is rewritten
\* to carry the URI "/" + u-without-leading-slashes, and the Segment Map then
\* maps u-without-leading-slashes to u resolved against the URL the manifest
\* was fetched from.
C7_KeyRewrite ==
    \A t \in Tasks :
        Served(t) =>
            LET lines == SplitLines(task[t].result.content)
                out   == SplitLines(resp[t].body)
            IN  \A i \in 1..Len(lines) :
                    (IsKeyLine(lines[i]) /\ Truthy(UriAttribute(lines[i]))) =>
                        LET u == UriAttribute(lines[i])
                            k == LStrip(u, "/")
                        IN  /\ Len(out) = Len(lines)
                            /\ UriAttribute(out[i]) = <<"/">> \o k
                            /\ k \in DOMAIN SEGMENT_MAP
                            /\ SEGMENT_MAP[k] = UrlJoin(task[t].furl, u)

IsQueryToken(tok) == tok \in {"?t=1", "?url="}

\* an absolute URL without its query
WithoutQuery(url) ==
    IF \E i \in 1..Len(url) : IsQueryToken(url[i])
    THEN SubSeq(url, 1, (CHOOSE i \in 1..Len(url) :
                            IsQueryToken(url[i]) /\ \A j \in 1..(i - 1) : ~IsQueryToken(url[j])) - 1)
    ELSE url

\* the host of an absolute https URL
UrlHost(url) == Split(SubSeq(WithoutQuery(url), 4, Len(WithoutQuery(url))), <<"/">>)[1]

\* the last component of the path of an absolute https URL ("" if no path)
UrlLastComponent(url) ==
    LET parts == Split(SubSeq(WithoutQuery(url), 4, Len(WithoutQuery(url))), <<"/">>)
    IN  IF Len(parts) < 2 THEN <<>> ELSE Last(parts)

\* C8: in every served manifest a line that is an absolute https URL (behind
\* the CORS proxy or not) with last path component NAME.js is rewritten to
\* /NAME.ts, and the Segment Map then maps NAME.ts to the URL without the CORS
\* proxy prefix if its host is flu.streamed.su, and else to the bucket URL on
\* the panel host with NAME.js.
C8_SegmentRewrite ==
    \A t \in Tasks :
        Served(t) =>
            LET lines == SplitLines(task[t].result.content)
                out   == SplitLines(resp[t].body)
            IN  \A i \in 1..Len(lines) :
                    LET direct == Replace(Strip(lines[i]), CORS_PROXY_PREFIX, <<>>)
                        last   == IF IsUrlLine(direct) THEN UrlLastComponent(direct) ELSE <<>>
                    IN  (IsUrlLine(lines[i]) /\ EndsWith(last, <<".js">>)) =>
                            LET name == SubSeq(last, 1, Len(last) - 1)
                            IN  /\ Len(out) = Len(lines)
                                /\ out[i] = <<"/">> \o name \o <<".ts">>
                                /\ (name \o <<".ts">>) \in DOMAIN SEGMENT_MAP
                                /\ SEGMENT_MAP[name \o <<".ts">>] =
                                      IF UrlHost(direct) = FLU_HOST[1] THEN direct
                                      ELSE BUCKET_PREFIX \o name \o <<".js">>

\* one step of task t as C9 allows it
C9_Step(t) ==
    /\ net'[t].auths = net[t].auths + 1 =>
          IF CACHED_COOKIES # None
          THEN /\ net'[t].posts = net[t].posts
               /\ task'[t].pc # "auth"
               /\ task'[t].cookies = CACHED_COOKIES
          ELSE /\ net'[t].posts = net[t].posts + 1
               /\ task'[t].pc = "auth"
    /\ (task[t].pc = "auth" /\ task'[t].pc # "auth") =>
          /\ net'[t].posts = net[t].posts
          /\ IF task'[t].cookies = None
             THEN CACHED_COOKIES' = None
             ELSE CACHED_COOKIES' = task'[t].cookies

\* C9: in a sequential run a cache that holds a value keeps it, so that after
\* a successful fetch_cookies call every later call finds it; a fetch_cookies
\* call with a populated cache returns the cached value and issues no POST; a
\* call with an empty cache issues exactly one POST; and a handshake that fails
\* (transport error, no Set-Cookie, none of the required names) leaves the
\* cache empty, while one that succeeds caches what the call returns.
C9_CacheReuse ==
    [][ /\ CACHED_COOKIES # None => CACHED_COOKIES' = CACHED_COOKIES
        /\ \A t \in Tasks : C9_Step(t) ]_vars

\* a fetch_cookies call that returned the cached cookies without a POST, and
\* the manifest request was served with them
C9_Witness ==
    \E t \in Tasks :
        /\ net[t].auths = 1 /\ net[t].posts = 0
        /\ CACHED_COOKIES # None /\ task[t].cookies = CACHED_COOKIES
        /\ net[t].fetches = 2

\* what C10 says of the response to a fetched resource, where ranged tells
\* whether the request counts as carrying a Range header
C10_Shape(t, ranged) ==
    LET n == Len(task[t].result.content)
    IN  /\ resp[t].body = task[t].result.content
        /\ resp[t].headers.acao = <<"*">>
        /\ resp[t].headers.accept_ranges = <<"bytes">>
        /\ resp[t].status = 206 <=> ranged
        /\ IF ranged
           THEN /\ resp[t].status = 206
                /\ resp[t].headers.content_range =
                      <<"bytes ", ToString(0), "-", ToString(n - 1), "/", ToString(n)>>
           ELSE /\ resp[t].status = 200
                /\ resp[t].headers.content_range = None

\* the resource request of task t has been answered after a successful fetch
ResourceServed(t) == task[t].kind = "resource" /\ task[t].pc = "done" /\ task[t].result.ok

\* C10 (as amended): a fetched resource is answered with the whole payload,
\* Access-Control-Allow-Origin: * and Accept-Ranges: bytes; with status 206
\* and Content-Range "bytes 0-(len-1)/len" if the request has a non-empty
\* Range header, and with status 200 and no Content-Range if it has no Range
\* header or an empty one.
C10_ResponseShape ==
    \A t \in Tasks : ResourceServed(t) => C10_Shape(t, Truthy(task[t].range_header))

\* C10 as stated: 206 if and only if a Range header was supplied
C10_Original ==
    \A t \in Tasks : ResourceServed(t) => C10_Shape(t, task[t].range_header # None)

\* a ranged request answered 206 with a payload of two bytes
C10_Witness ==
    \E t \in Tasks :
        /\ ResourceServed(t) /\ Truthy(task[t].range_header)
        /\ resp[t].status = 206 /\ Len(resp[t].body) = 2

\* a step in which the manifest request of t is answered 200 by a rewrite pass
PassServed(t) ==
    /\ task[t].kind = "playlist" /\ task[t].pc = "fetch"
    /\ task'[t].pc = "done" /\ resp'[t].status = 200

\* C11: a successful rewrite pass on the manifest text and source URL of the
\* successful pass before it (no other manifest served in between, whatever
\* requests failed in between and whatever the Segment Map held before the
\* first of the two) returns the same rewritten text and leaves the same
\* Segment Map as that pass did.
C11_Idempotent ==
    [][ \A t \in Tasks :
          (/\ PassServed(t)
           /\ served.text = task'[t].result.content
           /\ served.url = task'[t].url)
          => /\ resp'[t].body = served.out
             /\ SEGMENT_MAP' = served.map ]_vars

\* a manifest with a segment was served twice in a row from the same text and
\* url, and the second pass has left its entries in the Segment Map
C11_Witness ==
    \E t \in Tasks :
        /\ Served(t) /\ served.again
        /\ served.text = task[t].result.content /\ served.url = task[t].url
        /\ resp[t].body = served.out
        /\ SEGMENT_MAP = served.map /\ SEGMENT_MAP # EmptyMap

\* url with every relay-host token replaced by the host token
OnHost(url, host) ==
    IF url = <<>> THEN <<>>
    ELSE [k \in 1..Len(url) |-> IF <<url[k]>> = RELAY_HOST THEN host[1] ELSE url[k]]

\* the position in the candidate list of the n-th GET of a fetch_resource call
CandidateOf(n) == ((n - 1) \div RETRIES) + 1

\* C12: the candidate list of a fetch_resource call has exactly 3 entries, and
\* every GET of the call goes to the entry of its turn: the input URL first,
\* then the input with the relay host rr.buytommy.top replaced by
\* p2-panel.streamed.su, then the input with it replaced by flu.streamed.su;
\* for an input without the relay host all GETs go to the input itself, and
\* still there are 3 candidates.
C12_MirrorCandidates ==
    \A t \in Tasks :
        net[t].gets > 0 =>
            LET url == task[t].furl
                i   == CandidateOf(net[t].gets)
            IN  /\ Len(Sources(url)) = 3
                /\ i \in 1..3
                /\ net[t].lastGet.url =
                      <<url, OnHost(url, PANEL_HOST), OnHost(url, FLU_HOST)>>[i]
                /\ (\A k \in 1..Len(url) : <<url[k]>> # RELAY_HOST)
                      => /\ net[t].lastGet.url = url
                         /\ Sources(url) = <<url, url, url>>

\* a fetch_resource call on a URL of the relay host has reached its third
\* candidate, the URL on flu.streamed.su
C12_Witness ==
    \E t \in Tasks :
        /\ net[t].gets >= 2 * RETRIES + 1
        /\ Contains(task[t].furl, RELAY_HOST)
        /\ Contains(net[t].lastGet.url, FLU_HOST)
        /\ net[t].lastGet.url # task[t].furl

\* C13: in every reachable state every entry of the Segment Map is an entry
\* the rewrite pass of the most recently served manifest has made: no entry
\* of an earlier manifest is left, and none of a manifest that was not served
\* (before the first manifest is served the map is empty).
C13_MapOfServed ==
    \A k \in DOMAIN SEGMENT_MAP :
        /\ k \in DOMAIN served.map
        /\ SEGMENT_MAP[k] = served.map[k]

\* what C15 says of a step in which a GET of task t is answered
C15_Step(t) ==
    LET src     == task[t].src
        attempt == task[t].attempt
        outcome == net'[t].lastGet.outcome
    IN  net'[t].gets = net[t].gets + 1 =>
            /\ task[t].pc = "fetch" /\ net[t].last = "none"
            /\ src \in 1..3 /\ attempt \in 1..RETRIES
            /\ net'[t].lastGet.url = Sources(task[t].furl)[src]
            /\ IF outcome = "ok"
               THEN /\ net'[t].last = "ok"
                    /\ task'[t].pc = "done"
                    /\ task'[t].result.ok
               ELSE \/ /\ attempt < RETRIES
                       /\ task'[t].pc = "fetch" /\ net'[t].last = "none"
                       /\ task'[t].src = src /\ task'[t].attempt = attempt + 1
                    \/ /\ attempt = RETRIES /\ src < 3
                       /\ task'[t].pc = "fetch" /\ net'[t].last = "none"
                       /\ task'[t].src = src + 1 /\ task'[t].attempt = 1
                    \/ /\ attempt = RETRIES /\ src = 3
                       /\ task'[t].pc # "fetch" /\ net'[t].last = "fail"
                       /\ ~task'[t].result.ok

\* C15: the GETs of a fetch_resource call go candidate by candidate in list
\* order, at most retries of them to one candidate; a failed attempt is
\* followed by the next attempt on the same candidate, or by the first one on
\* the next candidate once the attempts of this one are used up; the first
\* successful GET ends the call with a result, and a call that has ended, by a
\* success or by the last failure, issues no further GET.
C15_FetchOrder == [][ \A t \in Tasks : C15_Step(t) ]_vars

\* a call has ended with the success of its 5th GET, the second attempt on the
\* second candidate
C15_Witness ==
    \E t \in Tasks :
        /\ net[t].last = "ok" /\ task[t].result.ok
        /\ net[t].gets = RETRIES + 2
        /\ net[t].lastGet.url = Sources(task[t].furl)[2]
        /\ net[t].lastGet.url # task[t].furl

\* the path parameter of the resource request a client sends for the
\* proxy-local URI uri: the URI without its query and its leading slash
RequestPath(uri) ==
    LET p == WithoutQuery(uri)
    IN  IF StartsWith(p, <<"/">>) THEN SubSeq(p, 2, Len(p)) ELSE p

\* C16 (for key lines with a non-empty URI): once a manifest is answered 200,
\* every proxy-local URI of the returned text (the URI of a rewritten key line,
\* a rewritten segment line) is, without its leading slash, a key of the
\* Segment Map, and the resource request for that URI is dispatched to the
\* mapped URL and not to the guessed one.
C16_TwoPhase ==
    \A t \in Tasks :
        Served(t) =>
            LET lines == SplitLines(task[t].result.content)
                out   == SplitLines(resp[t].body)
            IN  /\ Len(out) = Len(lines)
                /\ \A i \in 1..Len(lines) :
                      (IF IsKeyLine(lines[i]) THEN UriAttribute(lines[i]) # <<>>
                                               ELSE IsUrlLine(lines[i])) =>
                          LET uri == IF IsKeyLine(lines[i]) THEN UriAttribute(out[i]) ELSE out[i]
                          IN  /\ StartsWith(uri, <<"/">>)
                              /\ SubSeq(uri, 2, Len(uri)) \in DOMAIN SEGMENT_MAP
                              /\ RequestPath(uri) \in DOMAIN SEGMENT_MAP
                              /\ Dispatch(SEGMENT_MAP, RequestPath(uri)) =
                                    SEGMENT_MAP[RequestPath(uri)]

\* C19: a manifest request that is answered 500 leaves the Segment Map as it
\* was before the request: no step of a manifest request changes the map,
\* but the step that answers it 200.
C19_FailureKeepsMap ==
    [][ \A t \in Tasks :
          (/\ task'[t] # task[t]
           /\ task'[t].kind = "playlist"
           /\ resp'[t].status # 200)
          => SEGMENT_MAP' = SEGMENT_MAP ]_vars

\* C20: no step of a resource request, from its lookup to the delivery of its
\* response, changes the Segment Map or the Cookie Cache; the map is written
\* only by the step of a manifest request that runs the rewrite pass, and the
\* cache only by a step in which the handshake of fetch_cookies is answered.
C20_ResourceReadOnly ==
    [][ /\ \A t \in Tasks :
             (task'[t] # task[t] /\ "resource" \in {task[t].kind, task'[t].kind})
             => /\ SEGMENT_MAP' = SEGMENT_MAP
                /\ CACHED_COOKIES' = CACHED_COOKIES
        /\ SEGMENT_MAP' # SEGMENT_MAP =>
              \E t \in Tasks :
                  task[t].kind = "playlist" /\ task[t].pc = "fetch" /\ task'[t].pc = "done"
        /\ CACHED_COOKIES' # CACHED_COOKIES =>
              \E t \in Tasks : task[t].pc = "auth" /\ task'[t].pc # "auth" ]_vars

\* a resource request for a path the map does not hold has failed on all its
\* GETs, with the map and the cache filled by earlier manifest requests
C20_Witness ==
    \E t \in Tasks :
        /\ task[t].kind = "resource" /\ task[t].pc = "done" /\ resp[t].status = 500
        /\ task[t].path \notin DOMAIN SEGMENT_MAP
        /\ SEGMENT_MAP # EmptyMap
        /\ Truthy(CACHED_COOKIES)

\* a step in which the rewrite pass of the manifest request of t runs, to its
\* end or to the exception it raises
PassRan(t) ==
    /\ task[t].kind = "playlist" /\ task[t].pc = "fetch" /\ task'[t].pc = "done"
    /\ task'[t].result.ok
    /\ Decodable(task'[t].result.content) /\ HasMarker(task'[t].result.content)

\* the Segment Map holds an entry of the manifest of a and one of the manifest of b
Mixed(a, b) ==
    LET ma == Rewrite(task[a].result.content, task[a].url).map
        mb == Rewrite(task[b].result.content, task[b].url).map
    IN  /\ \E k \in DOMAIN ma : k \in DOMAIN SEGMENT_MAP /\ SEGMENT_MAP[k] = ma[k]
        /\ \E k \in DOMAIN mb : k \in DOMAIN SEGMENT_MAP /\ SEGMENT_MAP[k] = mb[k]

\* two manifest requests are answered 200 and not yet delivered, with
\* manifests that have no entry in common
BothServed(a, b) ==
    /\ a # b /\ Served(a) /\ Served(b)
    /\ LET ma == Rewrite(task[a].result.content, task[a].url).map
           mb == Rewrite(task[b].result.content, task[b].url).map
       IN  /\ ma # EmptyMap /\ mb # EmptyMap
           /\ DOMAIN ma \cap DOMAIN mb = {}

C17_CacheKept ==
    [][ /\ Truthy(CACHED_COOKIES) => Truthy(CACHED_COOKIES')
        /\ \A t \in Tasks :
              (task[t].pc = "auth" /\ task'[t].pc # "auth" /\ task'[t].cookies # None)
              => Truthy(CACHED_COOKIES') ]_vars

\* two handshakes were in flight together; one has filled the cache, the
\* other has failed, and the cache still holds the cookies of the first
C17_Witness ==
    \E a, b \in Tasks :
        /\ a # b
        /\ net[a].posts = 1 /\ task[a].pc = "done"
        /\ net[b].posts = 1 /\ task[b].pc = "done"
        /\ Truthy(task[a].cookies) /\ CACHED_COOKIES = task[a].cookies
        /\ task[b].cookies = None

\* a fetch_cookies call of task t that starts with the cache filled returns
\* the cached cookies and issues no POST
C18_NoPostOnHit(t) ==
    (net'[t].auths = net[t].auths + 1 /\ Truthy(CACHED_COOKIES))
    => /\ net'[t].posts = net[t].posts
       /\ task'[t].pc # "auth"
       /\ task'[t].cookies = CACHED_COOKIES

\* C18 (as amended): with concurrent manifest requests in the fallback tier,
\* no POST is issued by a fetch_cookies call that started after the cache was
\* filled, and the cache is written only by a call that started while it was
\* empty, when its handshake returns cookies: the cache then holds the
\* cookies of that call, whatever it held before (the last writer wins).
C18_LastWriterWins ==
    [][ /\ \A t \in Tasks : C18_NoPostOnHit(t)
        /\ CACHED_COOKIES' # CACHED_COOKIES =>
              \E t \in Tasks :
                  /\ task[t].pc = "auth" /\ task'[t].pc # "auth"
                  /\ Truthy(task'[t].cookies)
                  /\ CACHED_COOKIES' = task'[t].cookies ]_vars

\* C18 (as claimed): the cache is written at most once: once it holds a value no
\* step changes it, and no POST is issued by a call that started after the
\* cache was filled.
C18_Original ==
    [][ /\ \A t \in Tasks : C18_NoPostOnHit(t)
        /\ CACHED_COOKIES # None => CACHED_COOKIES' = CACHED_COOKIES ]_vars

\* two fetch_cookies calls that both started on the empty cache have each
\* got cookies from their handshake, different ones, and the cache holds
\* those of the second
C18_Witness ==
    \E a, b \in Tasks :
        /\ net[a].posts = 1 /\ task[a].pc = "done" /\ Truthy(task[a].cookies)
        /\ net[b].posts = 1 /\ task[b].pc = "done" /\ Truthy(task[b].cookies)
        /\ task[a].cookies # task[b].cookies
        /\ CACHED_COOKIES = task[b].cookies

=============================================================================
